---- MODULE Spec2Model ----
(***************************************************************************)
(* Model of decision_tree.py: the ID3-style tree builder, its classifier,  *)
(* the threshold search for continuous attributes and the one-attribute    *)
(* baseline model.                                                         *)
(*                                                                         *)
(* A record (data point) is a TLA+ record with the keys age, color,        *)
(* fnlwgt and class.  age and fnlwgt are continuous (their values parse as *)
(* integers), color is categorical, class is the 0/1 label.  Continuous    *)
(* values are single digits, for which Python's ordering of the strings    *)
(* "1".."9" and of the integers 1..9 coincide.                             *)
(*                                                                         *)
(* Python's None is modelled for attribute names by the string "None" and  *)
(* for optional integers by the empty sequence (<<t>> is the integer t).   *)
(*                                                                         *)
(* Entropies are kept as exact integers: every entropy term of the source  *)
(* is of the form (1/len(data)) * sum of t*H(a/t), and                     *)
(* t*H(a/t) = t*log2(t) - a*log2(a) - b*log2(b), so with log2 taken from   *)
(* a table scaled by 10^6, comparing     gains over the same data reduces  *)
(* to comparing integers.                                                  *)
(***************************************************************************)
EXTENDS Integers, Sequences, FiniteSets, TLC

VARIABLES
    data,       \* the training data: a sequence of records
    keys,       \* the key order of the records (iteration order of data[0])
    max_depth,  \* build_decision_tree's max_depth: <<>> (None) or <<d>>
    pc,         \* "idle", "building", "built", "classifying", "classified", "returned"
    nodes,      \* the Node objects, by identity (index of creation)
    stack,      \* the active calls of _build_decision_tree, innermost last
    item,       \* the record being classified
    cur,        \* the node decision_tree_classify is called on
    visited,    \* number of decision_tree_classify calls made for item
    result,     \* the value decision_tree_classify returned: <<>> or <<label>>
    ret,        \* the value the last baseline / threshold call returned
    args        \* per node: the subset it was created for and, once
                \* _build_decision_tree is called on it, that call's arguments

vars == <<data, keys, max_depth, pc, nodes, stack, item, cur, visited, result, ret, args>>

(***************************************************************************)
(* Bounds of the model.                                                    *)
(***************************************************************************)
MaxRecords == 3
MaxDepthArg == 1
MaxThresholdRecords == 4
MaxBaselineRecords == 5

AgeValues == {1, 2}
Weights == {1}
ThresholdAges == {1, 2, 3, 4}
Colors == {"blue", "red"}
UnseenColor == "green"
Classes == {0, 1}

None == "None"

(***************************************************************************)
(* Helpers on sequences.                                                   *)
(***************************************************************************)
RECURSIVE SeqsUpTo(_, _)
\* all sequences over S of length 1..n
SeqsUpTo(S, n) ==
    IF n = 0 THEN {}
    ELSE LET shorter == SeqsUpTo(S, n - 1)
         IN  {<<x>> : x \in S} \cup shorter \cup
             {Append(s, x) : s \in {t \in shorter : Len(t) = n - 1}, x \in S}

Range(s) == {s[i] : i \in 1..Len(s)}

Contains(s, x) == \E i \in 1..Len(s) : s[i] = x

\* list.remove(x) on a list that holds x: drops the first occurrence
Remove(s, x) ==
    LET i == CHOOSE j \in 1..Len(s) : s[j] = x /\ \A k \in 1..(j - 1) : s[k] # x
    IN  SubSeq(s, 1, i - 1) \o SubSeq(s, i + 1, Len(s))

(***************************************************************************)
(* represents_integer and the ordering of attribute values.                *)
(***************************************************************************)
\* represents_integer(r[attribute]): int() succeeds on the values of age,
\* fnlwgt and class and raises ValueError on a colour name.
represents_integer(attribute) == attribute \in {"age", "fnlwgt", "class"}

\* Python's < on two values of one attribute: integers by value, the colour
\* strings lexicographically ("blue" < "green" < "red").
ColorRank(c) == CASE c = "blue" -> 1 [] c = "green" -> 2 [] c = "red" -> 3

Rank(attribute, value) ==
    IF represents_integer(attribute) THEN value ELSE ColorRank(value)

(***************************************************************************)
(* Entropy arithmetic.                                                     *)
(***************************************************************************)
\* math.log(k, 2) for k = 1..8, scaled by 10^6; the entries of composite k
\* are the sums of their factors' entries, as their logarithms are.
Log2Tab == <<0, 1000000, 1584963, 2000000, 2321928, 2584963, 2807355, 3000000>>

XLog(k) == IF k = 0 THEN 0 ELSE k * Log2Tab[k]

\* -(a/t * log2(a/t) + b/t * log2(b/t)) * t, scaled, for t = a + b
XH(a, b) == XLog(a + b) - XLog(a) - XLog(b)

\* number of records of class c in d
ClassCount(d, c) == Len(SelectSeq(d, LAMBDA r : r.class = c))

(***************************************************************************)
(* majority_label                                                          *)
(***************************************************************************)
majority_label(d) ==
    LET counts_positive == Len(SelectSeq(d, LAMBDA r : r.class # 0))
        counts_negative == Len(SelectSeq(d, LAMBDA r : r.class = 0))
    IN  IF counts_negative > counts_positive THEN 0 ELSE 1

(***************************************************************************)
(* sorted(data, key=lambda i: i[attribute]): a stable sort.                *)
(***************************************************************************)
\* s is sorted; r goes after every record whose value is not greater
InsertSorted(s, r, attribute) ==
    LET k == Cardinality({i \in 1..Len(s) :
                 Rank(attribute, s[i][attribute]) <= Rank(attribute, r[attribute])})
    IN  SubSeq(s, 1, k) \o <<r>> \o SubSeq(s, k + 1, Len(s))

RECURSIVE SortFrom(_, _, _)
SortFrom(d, attribute, acc) ==
    IF d = <<>> THEN acc
    ELSE SortFrom(Tail(d), attribute, InsertSorted(acc, Head(d), attribute))

sorted(d, attribute) == SortFrom(d, attribute, <<>>)

(***************************************************************************)
(* get_information_gain_threshold: the score find_threshold maximises.     *)
(* The value is len(sorted_data) * 10^6 times the source's float.          *)
(***************************************************************************)
RECURSIVE PrefixBelow(_, _, _, _)
\* the while loop: current_index after it stops (0-based count of records)
PrefixBelow(sorted_data, attribute, threshold, current_index) ==
    IF Rank(attribute, sorted_data[current_index + 1][attribute])
           < Rank(attribute, threshold)
    THEN PrefixBelow(sorted_data, attribute, threshold, current_index + 1)
    ELSE current_index

get_information_gain_threshold(sorted_data, attribute, threshold) ==
    LET current_index == PrefixBelow(sorted_data, attribute, threshold, 0)
        below == SubSeq(sorted_data, 1, current_index)
        above == SubSeq(sorted_data, current_index + 1, Len(sorted_data))
        counts_bt == <<ClassCount(below, 0), Len(below) - ClassCount(below, 0)>>
        counts_at == <<ClassCount(above, 0), Len(above) - ClassCount(above, 0)>>
    IN  IF 0 \in Range(counts_bt) \/ 0 \in Range(counts_at)
        THEN 0
        ELSE XH(counts_bt[1], counts_bt[2]) + XH(counts_at[1], counts_at[2])

(***************************************************************************)
(* find_threshold                                                          *)
(***************************************************************************)
RECURSIVE FindThresholdLoop(_, _, _, _, _, _, _)
\* the for loop from index x (1-based); best is <<>> while best_threshold is
\* still the initial 0, and <<v>> once a record's value v replaced it
FindThresholdLoop(sorted_data, attribute, x, previous_class, max_info_gain, best, tested) ==
    IF x > Len(sorted_data) THEN best
    ELSE LET threshold == sorted_data[x][attribute]
             candidate == threshold \notin tested
                          /\ sorted_data[x].class # previous_class
             threshold_info_gain ==
                 get_information_gain_threshold(sorted_data, attribute, threshold)
             better == candidate /\ threshold_info_gain > max_info_gain
         IN  FindThresholdLoop(sorted_data, attribute, x + 1,
                 sorted_data[x].class,
                 IF better THEN threshold_info_gain ELSE max_info_gain,
                 IF better THEN <<threshold>> ELSE best,
                 IF candidate THEN tested \cup {threshold} ELSE tested)

\* [raised |-> TRUE] when int(best_threshold) raises ValueError (a colour
\* name), else the integer returned
find_threshold(d, attribute) ==
    LET best == FindThresholdLoop(sorted(d, attribute), attribute, 1, -1, 0, <<>>, {})
    IN  IF best = <<>> THEN [raised |-> FALSE, value |-> 0]
        ELSE IF represents_integer(attribute)
             THEN [raised |-> FALSE, value |-> best[1]]
             ELSE [raised |-> TRUE, value |-> 0]

(***************************************************************************)
(* get_counts, get_counts_threshold                                        *)
(***************************************************************************)
RECURSIVE DistinctFrom(_, _, _)
\* the values of attribute in d, in order of first appearance (the key
\* order of the dict the source fills record by record)
DistinctFrom(d, attribute, acc) ==
    IF d = <<>> THEN acc
    ELSE DistinctFrom(Tail(d), attribute,
             IF Contains(acc, Head(d)[attribute]) THEN acc
             ELSE Append(acc, Head(d)[attribute]))

\* a dict {category: (y_1, y_2)} is the sequence of its items in key order
get_counts_threshold(d, attribute, threshold) ==
    LET below == SelectSeq(d, LAMBDA r : r[attribute] < threshold)
        above == SelectSeq(d, LAMBDA r : ~(r[attribute] < threshold))
    IN  << [category |-> "below", c0 |-> ClassCount(below, 0),
                                  c1 |-> Len(below) - ClassCount(below, 0)],
           [category |-> "above", c0 |-> ClassCount(above, 0),
                                  c1 |-> Len(above) - ClassCount(above, 0)] >>

get_counts(d, attribute, threshold) ==
    IF threshold # <<>> THEN get_counts_threshold(d, attribute, threshold[1])
    ELSE LET cats == DistinctFrom(d, attribute, <<>>)
         IN  [i \in 1..Len(cats) |->
                 LET sub == SelectSeq(d, LAMBDA r : r[attribute] = cats[i])
                 IN  [category |-> cats[i], c0 |-> ClassCount(sub, 0),
                                            c1 |-> Len(sub) - ClassCount(sub, 0)]]

(***************************************************************************)
(* get_information_gain, as len(data) * 10^6 times the source's float      *)
(***************************************************************************)
RECURSIVE SumSeq(_)
SumSeq(s) == IF s = <<>> THEN 0 ELSE Head(s) + SumSeq(Tail(s))

get_information_gain(d, attribute, threshold) ==
    LET counts == get_counts(d, attribute, threshold)
        total_0 == SumSeq([i \in 1..Len(counts) |-> counts[i].c0])
        total_1 == SumSeq([i \in 1..Len(counts) |-> counts[i].c1])
        entropy == IF total_0 # 0 /\ total_1 # 0 THEN XH(total_0, total_1) ELSE 0
        conditional_entropy ==
            SumSeq([i \in 1..Len(counts) |->
                       IF counts[i].c0 = 0 \/ counts[i].c1 = 0 THEN 0
                       ELSE XH(counts[i].c0, counts[i].c1)])
    IN  entropy - conditional_entropy

(***************************************************************************)
(* split_on_attribute, split_on_attribute_threshold                        *)
(***************************************************************************)
split_on_attribute_threshold(d, attribute, threshold) ==
    << [subset |-> SelectSeq(d, LAMBDA r : r[attribute] < threshold),
        category |-> "below"],
       [subset |-> SelectSeq(d, LAMBDA r : ~(r[attribute] < threshold)),
        category |-> "above"] >>

split_on_attribute(d, attribute, threshold) ==
    IF threshold # <<>> THEN split_on_attribute_threshold(d, attribute, threshold[1])
    ELSE LET cats == DistinctFrom(d, attribute, <<>>)
         IN  [i \in 1..Len(cats) |->
                 [subset |-> SelectSeq(d, LAMBDA r : r[attribute] = cats[i]),
                  category |-> cats[i]]]

(***************************************************************************)
(* Node and the body of _build_decision_tree                               *)
(***************************************************************************)
\* Node.__init__(category, label=-1)
Node(category) ==
    [attribute |-> None, children |-> <<>>, label |-> -1,
     category |-> category, threshold |-> <<>>]

\* line 143: the first stop test
StopsOnData(d, attributes) ==
    LET data_classes == [i \in 1..Len(d) |-> d[i].class]
    IN  Len(attributes) = 0 \/ Len(data_classes) = Cardinality(Range(data_classes))

\* a faulty variant: the depth test one level late
DepthExceededLate(md, depth) == md # <<>> /\ depth > md[1] + 1

\* line 146: the depth test; depth is the value after "depth += 1"
DepthExceeded(md, depth) == md # <<>> /\ depth > md[1]

RECURSIVE BestFrom(_, _, _, _)
\* lines 152-162: the loop over attributes from index i, with the best so far
BestFrom(d, attributes, i, best) ==
    IF i > Len(attributes) THEN best
    ELSE LET attribute == attributes[i]
             threshold == IF represents_integer(attribute)
                          THEN <<find_threshold(d, attribute).value>>
                          ELSE <<>>
             information_gain == get_information_gain(d, attribute, threshold)
         IN  BestFrom(d, attributes, i + 1,
                 IF information_gain > best.gain
                 THEN [gain |-> information_gain, attribute |-> attribute,
                       threshold |-> threshold]
                 ELSE best)

\* max_information_gain starts at -1, here scaled like the gains
BestSplit(d, attributes) ==
    BestFrom(d, attributes, 1,
             [gain |-> -(Len(d) * 1000000), attribute |-> None, threshold |-> <<>>])

\* a faulty variant: the child of an empty subset keeps the constructor's label
EmptyChildUnlabelled(category, d) == Node(category)

\* a faulty variant: the child of an empty subset is labelled from the empty subset
EmptyChildFromSubset(category, d) ==
    [Node(category) EXCEPT !.label = majority_label(<<>>)]

\* lines 172-175: the child made for an empty subset of the data d
EmptyChild(category, d) ==
    [Node(category) EXCEPT !.label = majority_label(d)]

\* a faulty variant: the used attribute is not removed
NewAttributesKept(attributes, best_attribute) == attributes

\* lines 177-178: the attribute list a child is built with
NewAttributes(attributes, best_attribute) == Remove(attributes, best_attribute)

(***************************************************************************)
(* Inputs                                                                  *)
(***************************************************************************)
Records(ages, colors) ==
    [age : ages, color : colors, fnlwgt : Weights, class : Classes]

\* key orders of the records: the label last (as in the income data), the
\* label first, and a categorical attribute last
KeyOrders ==
    { <<"age", "color", "fnlwgt", "class">>,
      <<"color", "age", "fnlwgt", "class">>,
      <<"class", "color", "age", "fnlwgt">>,
      <<"age", "fnlwgt", "class", "color">> }

BuildKeyOrders ==
    { <<"age", "color", "fnlwgt", "class">>,
      <<"color", "age", "fnlwgt", "class">> }

DepthArgs == {<<>>} \cup {<<d>> : d \in 0..MaxDepthArg}

\* records offered to the classifier: every attribute key present, colours
\* seen in training or not
Items == [age : AgeValues, color : Colors \cup {UnseenColor}]

NoItem == [age |-> 0, color |-> None]

Top == stack[Len(stack)]

(***************************************************************************)
(* build_decision_tree (lines 129-134): the root and the first call        *)
(***************************************************************************)
build_decision_tree ==
    /\ pc = "idle"
    /\ LET attributes == Remove(Remove(keys, "fnlwgt"), "class")
       IN  /\ nodes' = <<Node(None)>>
           /\ stack' = <<[node |-> 1, data |-> data, attributes |-> attributes,
                          depth |-> 0, at |-> "enter", subsets |-> <<>>]>>
           /\ args' = <<[subset |-> data, called |-> TRUE,
                         attributes |-> attributes, depth |-> 0]>>
    /\ pc' = "building"
    /\ UNCHANGED <<data, keys, max_depth, item, cur, visited, result, ret>>

\* the state after the innermost call returned
Return(newNodes) ==
    /\ nodes' = newNodes
    /\ stack' = SubSeq(stack, 1, Len(stack) - 1)
    /\ pc' = IF Len(stack) = 1 THEN "built" ELSE "building"

(***************************************************************************)
(* _build_decision_tree, lines 140-147: label the node, return if a stop   *)
(* test holds                                                              *)
(***************************************************************************)
BuildStop ==
    /\ pc = "building" /\ Top.at = "enter"
    /\ LET depth == Top.depth + 1
       IN  /\ StopsOnData(Top.data, Top.attributes) \/ DepthExceeded(max_depth, depth)
           /\ Return([nodes EXCEPT ![Top.node].label = majority_label(Top.data)])
    /\ UNCHANGED <<data, keys, max_depth, item, cur, visited, result, ret, args>>

(***************************************************************************)
(* _build_decision_tree, lines 140-169: label the node, choose the best    *)
(* attribute and split the data on it                                      *)
(***************************************************************************)
BuildSplit ==
    /\ pc = "building" /\ Top.at = "enter"
    /\ LET depth == Top.depth + 1
           best == BestSplit(Top.data, Top.attributes)
           subsets == IF represents_integer(best.attribute)
                      THEN split_on_attribute(Top.data, best.attribute, best.threshold)
                      ELSE split_on_attribute(Top.data, best.attribute, <<>>)
       IN  /\ ~StopsOnData(Top.data, Top.attributes)
           /\ ~DepthExceeded(max_depth, depth)
           /\ nodes' = [nodes EXCEPT ![Top.node] =
                            [@ EXCEPT !.label = majority_label(Top.data),
                                      !.attribute = best.attribute,
                                      !.threshold = best.threshold]]
           /\ stack' = [stack EXCEPT ![Len(stack)] =
                            [@ EXCEPT !.depth = depth, !.at = "loop",
                                      !.subsets = subsets]]
    /\ UNCHANGED <<data, keys, max_depth, pc, item, cur, visited, result, ret, args>>

(***************************************************************************)
(* lines 171-175: a child for an empty subset                              *)
(***************************************************************************)
BuildEmptyChild ==
    /\ pc = "building" /\ Top.at = "loop" /\ Top.subsets # <<>>
    /\ LET subset == Head(Top.subsets)
           id == Len(nodes) + 1
           new_node == EmptyChild(subset.category, Top.data)
       IN  /\ Len(subset.subset) = 0
           /\ nodes' = Append([nodes EXCEPT ![Top.node].children = Append(@, id)],
                               new_node)
           /\ args' = Append(args, [subset |-> subset.subset, called |-> FALSE,
                                     attributes |-> <<>>, depth |-> 0])
           /\ stack' = [stack EXCEPT ![Len(stack)].subsets = Tail(@)]
    /\ UNCHANGED <<data, keys, max_depth, pc, item, cur, visited, result, ret>>

(***************************************************************************)
(* lines 171-179: a child for a non-empty subset, and the recursive call   *)
(***************************************************************************)
BuildRecurse ==
    /\ pc = "building" /\ Top.at = "loop" /\ Top.subsets # <<>>
    /\ LET subset == Head(Top.subsets)
           id == Len(nodes) + 1
           new_attributes == NewAttributes(Top.attributes, nodes[Top.node].attribute)
       IN  /\ Len(subset.subset) # 0
           /\ nodes' = Append([nodes EXCEPT ![Top.node].children = Append(@, id)],
                               Node(subset.category))
           /\ args' = Append(args, [subset |-> subset.subset, called |-> TRUE,
                                     attributes |-> new_attributes,
                                     depth |-> Top.depth])
           /\ stack' = Append([stack EXCEPT ![Len(stack)].subsets = Tail(@)],
                               [node |-> id, data |-> subset.subset,
                                attributes |-> new_attributes, depth |-> Top.depth,
                                at |-> "enter", subsets |-> <<>>])
    /\ UNCHANGED <<data, keys, max_depth, pc, item, cur, visited, result, ret>>

(***************************************************************************)
(* the for loop of line 171 is exhausted: the call returns                 *)
(***************************************************************************)
BuildReturn ==
    /\ pc = "building" /\ Top.at = "loop" /\ Top.subsets = <<>>
    /\ Return(nodes)
    /\ UNCHANGED <<data, keys, max_depth, item, cur, visited, result, ret, args>>

(***************************************************************************)
(* decision_tree_classify (lines 97-118), one action per call              *)
(***************************************************************************)
Classify ==
    /\ pc = "built"
    /\ \E i \in Items : item' = i
    /\ cur' = 1 /\ visited' = 1 /\ result' = <<>>
    /\ pc' = "classifying"
    /\ UNCHANGED <<data, keys, max_depth, nodes, stack, ret, args>>

\* lines 110-112: the first child whose category is the record's, if any
MatchingChild(node, category) ==
    LET hits == {k \in 1..Len(node.children) :
                    nodes[node.children[k]].category = category}
    IN  IF hits = {} THEN <<>>
        ELSE <<node.children[CHOOSE k \in hits : \A j \in hits : k <= j]>>

\* a faulty variant: an unseen category falls back to the last child
NextNodeLastChild(n, it) ==
    LET node == nodes[n]
        category == it[node.attribute]
    IN  IF ~represents_integer(node.attribute)
        THEN IF MatchingChild(node, category) # <<>>
             THEN MatchingChild(node, category)[1]
             ELSE node.children[Len(node.children)]
        ELSE IF category < node.threshold[1]
             THEN node.children[1]
             ELSE node.children[2]

\* the node the call on node n passes the record to (n has children)
NextNode(n, it) ==
    LET node == nodes[n]
        category == it[node.attribute]
    IN  IF ~represents_integer(node.attribute)
        THEN IF MatchingChild(node, category) # <<>>
             THEN MatchingChild(node, category)[1]
             ELSE node.children[1]
        ELSE IF category < node.threshold[1]
             THEN node.children[1]
             ELSE node.children[2]

ClassifyLeaf ==
    /\ pc = "classifying"
    /\ Len(nodes[cur].children) = 0
    /\ result' = <<nodes[cur].label>>
    /\ pc' = "classified"
    /\ UNCHANGED <<data, keys, max_depth, nodes, stack, item, cur, visited, ret, args>>

ClassifyDescend ==
    /\ pc = "classifying"
    /\ Len(nodes[cur].children) # 0
    /\ cur' = NextNode(cur, item)
    /\ visited' = visited + 1
    /\ UNCHANGED <<data, keys, max_depth, pc, nodes, stack, item, result, ret, args>>

(***************************************************************************)
(* The builder and the classifier                                          *)
(***************************************************************************)
Init ==
    /\ data \in SeqsUpTo(Records(AgeValues, Colors), MaxRecords)
    /\ keys \in BuildKeyOrders
    /\ max_depth \in DepthArgs
    /\ pc = "idle"
    /\ nodes = <<>> /\ stack = <<>> /\ args = <<>>
    /\ item = NoItem /\ cur = 0 /\ visited = 0 /\ result = <<>>
    /\ ret = <<>>

Next ==
    \/ build_decision_tree
    \/ BuildStop
    \/ BuildSplit
    \/ BuildEmptyChild
    \/ BuildRecurse
    \/ BuildReturn
    \/ Classify
    \/ ClassifyLeaf
    \/ ClassifyDescend

Spec == Init /\ [][Next]_vars

(***************************************************************************)
(* find_threshold on its own                                               *)
(***************************************************************************)
FindThreshold ==
    /\ pc = "idle"
    /\ ret' = find_threshold(data, "age")
    /\ pc' = "returned"
    /\ UNCHANGED <<data, keys, max_depth, nodes, stack, item, cur, visited, result, args>>

InitThreshold ==
    /\ data \in SeqsUpTo(Records(ThresholdAges, {"blue"}), MaxThresholdRecords)
    /\ keys = <<"age", "color", "fnlwgt", "class">>
    /\ max_depth = <<>>
    /\ pc = "idle"
    /\ nodes = <<>> /\ stack = <<>> /\ args = <<>>
    /\ item = NoItem /\ cur = 0 /\ visited = 0 /\ result = <<>>
    /\ ret = <<>>

NextThreshold == FindThreshold

SpecThreshold == InitThreshold /\ [][NextThreshold]_vars

(***************************************************************************)
(* find_baseline_attribute (lines 25-54)                                   *)
(***************************************************************************)
\* lines 38-39: the records a per-category majority vote gets right
Correct(counts) ==
    SumSeq([i \in 1..Len(counts) |->
               IF counts[i].c0 > counts[i].c1 THEN counts[i].c0 ELSE counts[i].c1])

\* lines 33-36: the counts an attribute is scored with
ScoringCounts(d, attribute) ==
    IF represents_integer(attribute)
    THEN get_counts(d, attribute, <<find_threshold(d, attribute).value>>)
    ELSE get_counts(d, attribute, <<>>)

\* line 30: the keys the loop skips
Skipped(attribute) == attribute = "fnlwgt"

RECURSIVE BaselineFrom(_, _, _, _)
\* lines 29-43: the loop over the keys of data[0] from index i; ratios are
\* kept as their numerators, the denominator len(data) being common
BaselineFrom(d, ks, i, best) ==
    IF i > Len(ks) THEN best
    ELSE IF Skipped(ks[i]) THEN BaselineFrom(d, ks, i + 1, best)
    ELSE LET correct == Correct(ScoringCounts(d, ks[i]))
         IN  BaselineFrom(d, ks, i + 1,
                 IF correct > best.correct
                 THEN [correct |-> correct, attribute |-> ks[i]]
                 ELSE best)

\* lines 50-52
LabelsOf(counts) ==
    [i \in 1..Len(counts) |->
        [category |-> counts[i].category,
         label |-> IF counts[i].c0 > counts[i].c1 THEN 0 ELSE 1]]

\* line 46: the attribute whose threshold the final counts are taken at is
\* the loop variable, which the loop left at the last key of data[0]
FinalThresholdAttribute(ks, best_attribute) == ks[Len(ks)]

find_baseline_attribute(d, ks) ==
    LET best == BaselineFrom(d, ks, 1, [correct |-> 0, attribute |-> None])
        best_attribute == best.attribute
        threshold == find_threshold(d, FinalThresholdAttribute(ks, best_attribute))
    IN  IF represents_integer(best_attribute)
        THEN IF threshold.raised
             THEN [raised |-> TRUE, attribute |-> best_attribute, labels |-> <<>>]
             ELSE [raised |-> FALSE, attribute |-> best_attribute,
                   labels |-> LabelsOf(get_counts(d, best_attribute,
                                                  <<threshold.value>>))]
        ELSE [raised |-> FALSE, attribute |-> best_attribute,
              labels |-> LabelsOf(get_counts(d, best_attribute, <<>>))]

(***************************************************************************)
(* baseline_classify (lines 57-64)                                         *)
(***************************************************************************)
\* labels[category]: <<>> when the key is absent (KeyError)
Lookup(labels, category) ==
    LET hits == {i \in 1..Len(labels) : labels[i].category = category}
    IN  IF hits = {} THEN <<>> ELSE <<labels[CHOOSE i \in hits : TRUE].label>>

\* <<label>>, or <<>> when the call raises (KeyError, or ValueError from
\* int() of a colour name)
baseline_classify(it, attribute, labels, threshold) ==
    IF threshold # <<>>
    THEN IF ~represents_integer(attribute) THEN <<>>
         ELSE IF it[attribute] < threshold[1]
              THEN Lookup(labels, "below")
              ELSE Lookup(labels, "above")
    ELSE IF represents_integer(attribute) THEN <<>>
         ELSE Lookup(labels, it[attribute])

FindBaseline ==
    /\ pc = "idle"
    /\ ret' = find_baseline_attribute(data, keys)
    /\ pc' = "returned"
    /\ UNCHANGED <<data, keys, max_depth, nodes, stack, item, cur, visited, result, args>>

BaselineItems == [age : AgeValues, color : Colors \cup {UnseenColor},
                  fnlwgt : Weights, class : {0}]

BaselineClassify ==
    /\ pc = "returned"
    /\ ~ret.raised
    /\ \E it \in BaselineItems, threshold \in {<<>>} \cup {<<t>> : t \in AgeValues} :
          /\ item' = it
          /\ result' = baseline_classify(it, ret.attribute, ret.labels, threshold)
    /\ pc' = "classified"
    /\ UNCHANGED <<data, keys, max_depth, nodes, stack, cur, visited, ret, args>>

InitBaseline ==
    /\ data \in SeqsUpTo(Records(AgeValues, Colors), MaxBaselineRecords)
    /\ keys \in KeyOrders
    /\ max_depth = <<>>
    /\ pc = "idle"
    /\ nodes = <<>> /\ stack = <<>> /\ args = <<>>
    /\ item = NoItem /\ cur = 0 /\ visited = 0 /\ result = <<>>
    /\ ret = <<>>

NextBaseline == FindBaseline \/ BaselineClassify

SpecBaseline == InitBaseline /\ [][NextBaseline]_vars

(***************************************************************************)
(* Properties of the builder and the classifier (specification Spec)       *)
(***************************************************************************)
Built == pc \in {"built", "classifying", "classified"}

NodeIds == 1..Len(nodes)

IsLeaf(n) == nodes[n].children = <<>> /\ nodes[n].attribute = None

Parent(n) == CHOOSE p \in NodeIds : n \in Range(nodes[p].children)

RECURSIVE Level(_)
\* number of edges from the root to n
Level(n) == IF n = 1 THEN 0 ELSE 1 + Level(Parent(n))

RECURSIVE Ancestors(_)
Ancestors(n) == IF n = 1 THEN {} ELSE {Parent(n)} \cup Ancestors(Parent(n))

RECURSIVE HeightOf(_)
\* greatest number of edges on a path from n down to a leaf
HeightOf(n) ==
    LET kids == nodes[n].children
        hs == {HeightOf(kids[k]) : k \in 1..Len(kids)}
    IN  IF kids = <<>> THEN 0
        ELSE 1 + CHOOSE h \in hs : \A g \in hs : g <= h

Height == IF nodes = <<>> THEN 0 ELSE HeightOf(1)

BothClasses(d) == \E i, j \in 1..Len(d) : d[i].class # d[j].class

\* C1: when every record of the data has the same class c, the finished
\* tree is a single leaf (no children, no attribute) labelled c.
C1_SameClassSingleLeaf ==
    (Built /\ ~BothClasses(data))
        => /\ Len(nodes) = 1
           /\ IsLeaf(1)
           /\ nodes[1].label = data[1].class

\* C3: when max_depth is the integer d, no path of the tree has more than
\* d edges (so with d = 0 the root has no children).
C3_DepthBounded ==
    (nodes # <<>> /\ max_depth # <<>>) => Height <= max_depth[1]

\* a finished tree cut at depth 1: below the root a node was called on data
\* that stops by neither data test and was left a leaf
C3_Witness ==
    /\ pc = "built" /\ max_depth = <<1>> /\ Height = 1
    /\ \E n \in NodeIds :
          /\ n # 1 /\ args[n].called /\ IsLeaf(n)
          /\ ~StopsOnData(args[n].subset, args[n].attributes)

\* C4: in a finished tree every leaf, the children made for empty subsets
\* included, is labelled 0 or 1; a classification visits one node per level,
\* each call being on a node one level deeper than the last, so at most
\* Height + 1 nodes, and the value it returns is 0 or 1.
C4_ClassifyTerminates ==
    /\ Built => \A n \in NodeIds :
                    nodes[n].children = <<>> => nodes[n].label \in {0, 1}
    /\ pc \in {"classifying", "classified"} =>
           /\ visited = Level(cur) + 1
           /\ visited <= Height + 1
    /\ pc = "classified" => result \in {<<0>>, <<1>>}

\* a record with an unseen colour classified through two levels of a tree
\* that holds a child made for an empty subset
C4_Witness ==
    /\ pc = "classified" /\ item.color = UnseenColor /\ visited = 3
    /\ result \in {<<0>>, <<1>>}
    /\ \E n \in NodeIds : args[n].subset = <<>>

\* C7: at a node that splits on the categorical attribute, the next call is
\* on the child whose category is the record's value, and on children[0]
\* when no child has that category.
C7_CategoricalRouting ==
    [][ (pc = "classifying" /\ nodes[cur].children # <<>>
            /\ ~represents_integer(nodes[cur].attribute))
        => LET kids == nodes[cur].children
               match == {c \in Range(kids) : nodes[c].category = item[nodes[cur].attribute]}
           IN  /\ pc' = "classifying"
               /\ IF match = {} THEN cur' = kids[1] ELSE cur' \in match
               /\ Cardinality(match) <= 1 ]_vars

\* a record with an unseen colour was passed to the first of several
\* children of a node that splits on colour
C7_Witness ==
    /\ pc \in {"classifying", "classified"} /\ item.color = UnseenColor
    /\ cur # 1
    /\ nodes[Parent(cur)].attribute = "color"
    /\ Len(nodes[Parent(cur)].children) >= 2
    /\ nodes[Parent(cur)].children[1] = cur

C9_SplitUnlessStopped ==
    Built => \A n \in NodeIds :
        (/\ args[n].called
         /\ args[n].attributes # <<>>
         /\ BothClasses(args[n].subset)
         /\ ~(max_depth # <<>> /\ args[n].depth + 1 > max_depth[1]))
        => (nodes[n].attribute # None /\ nodes[n].children # <<>>)

\* C10: no node splits on class or fnlwgt or on the attribute of one of its
\* ancestors, and every child that is built gets its parent's attribute list
\* less the parent's split attribute, whatever its siblings were given.
C10_AttributeOncePerPath ==
    \A n \in NodeIds :
        /\ nodes[n].attribute \notin {"class", "fnlwgt"}
        /\ nodes[n].attribute # None =>
               \A a \in Ancestors(n) : nodes[a].attribute # nodes[n].attribute
        /\ (n # 1 /\ args[n].called) =>
               args[n].attributes =
                   SelectSeq(args[Parent(n)].attributes,
                             LAMBDA x : x # nodes[Parent(n)].attribute)

\* a finished tree whose root splits on colour into two children, both
\* built with the list <<age>>, one of them split on age
C10_Witness ==
    /\ pc = "built"
    /\ \E p \in NodeIds :
          /\ nodes[p].attribute = "color" /\ Len(nodes[p].children) = 2
          /\ \A k \in 1..2 : /\ args[nodes[p].children[k]].called
                              /\ args[nodes[p].children[k]].attributes = <<"age">>
          /\ \E k \in 1..2 : nodes[nodes[p].children[k]].attribute = "age"

(***************************************************************************)
(* Properties of find_threshold (specification SpecThreshold)              *)
(***************************************************************************)
\* the positions k at which the sorted records s change class, when s is a
\* run of one class followed by a run of the other and the attribute value
\* changes at the transition
RunBoundary(s) ==
    {k \in 1..(Len(s) - 1) :
        /\ \A i \in 1..k : s[i].class = s[1].class
        /\ \A i \in (k + 1)..Len(s) : s[i].class # s[1].class
        /\ s[k].age # s[k + 1].age}

\* C2: when the records sorted by age are a run of one class followed by a
\* run of the other, with the age changing at the transition, find_threshold
\* returns the age of the first record of the second run.
C2_TransitionThreshold ==
    LET s == sorted(data, "age")
    IN  (pc = "returned" /\ RunBoundary(s) # {}) =>
            \A k \in RunBoundary(s) :
                ~ret.raised /\ ret.value = s[k + 1].age

(***************************************************************************)
(* Properties of the baseline model (specification SpecBaseline)           *)
(***************************************************************************)
\* the eligible attributes, in key order
Eligible(ks) == SelectSeq(ks, LAMBDA a : a \notin {"class", "fnlwgt"})

\* C5: find_baseline_attribute returns the first eligible attribute (every
\* key but class and fnlwgt, in key order) whose majority-vote accuracy is
\* greatest among the eligible attributes; class and fnlwgt are not returned.
C5_BaselineEligibleOnly ==
    (pc = "returned" /\ ~ret.raised) =>
        LET el == Eligible(keys)
            score(a) == Correct(ScoringCounts(data, a))
        IN  \E i \in 1..Len(el) :
              /\ ret.attribute = el[i]
              /\ \A j \in 1..Len(el) : score(el[j]) <= score(el[i])
              /\ \A j \in 1..(i - 1) : score(el[j]) < score(el[i])

\* C6: when find_baseline_attribute returns a continuous attribute, the labels
\* it returns for below and above are the majority classes of the records
\* below and at or above the threshold find_threshold gives for that
\* attribute.  (Stated for the calls that return an eligible attribute, so
\* that neither the scoring of class nor a raised ValueError is what
\* contradicts it.)
C6_LabelsAtOwnThreshold ==
    (pc = "returned" /\ ~ret.raised /\ ret.attribute = "age") =>
        LET t == find_threshold(data, ret.attribute).value
            below == SelectSeq(data, LAMBDA r : r[ret.attribute] < t)
            above == SelectSeq(data, LAMBDA r : r[ret.attribute] >= t)
            maj(d) == IF ClassCount(d, 0) > ClassCount(d, 1) THEN 0 ELSE 1
        IN  ret.labels = << [category |-> "below", label |-> maj(below)],
                            [category |-> "above", label |-> maj(above)] >>

====
